---- MODULE Spec2Model ----
(***************************************************************************)
(* A model of rust-buddy/src/main.rs: the dispatcher (main), the local     *)
(* proxy (proxy_command), the new-project bootstrap with its ascend search *)
(* (create_new_project) and the descend search of `cd` (find_project_path  *)
(* over WalkDir).                                                          *)
(*                                                                         *)
(* Text is modelled as a sequence of one-character strings, so that        *)
(* str::contains, Path::join and path.display() are computed on the        *)
(* characters.  A filesystem path is the sequence of its components below  *)
(* the root; the root "/" is the empty sequence.  The filesystem does not  *)
(* change while the program runs, and env::current_dir() and env::args()   *)
(* succeed.  A bare program name given to Command::new is looked up on     *)
(* PATH (onPath says whether an executable of that name is found there).   *)
(***************************************************************************)
EXTENDS Naturals, Sequences, FiniteSets

VARIABLES fs, cwd, environ, argv, onPath, build,
          pc, current_dir, found, iters, walk, project_path,
          child, spawned, out, err, exitCode

vars == <<fs, cwd, environ, argv, onPath, build,
          pc, current_dir, found, iters, walk, project_path,
          child, spawned, out, err, exitCode>>

inputs == <<fs, cwd, environ, argv, onPath, build>>

\* ------------------------------------------------------------------ bounds

\* deepest working directory the model starts in
MaxDepth == 2

\* exit codes a child may end with are 0..MaxCode
MaxCode == 2

\* ------------------------------------------------------------------ text

buddy == <<"b","u","d","d","y">>
dotBuddy == <<".","/">> \o buddy
newWord == <<"n","e","w">>
createWord == <<"c","r","e","a","t","e">>
cdWord == <<"c","d">>
versionWord == <<"v","e","r","s","i","o","n">>
helpWord == <<"h","e","l","p">>

storage == <<"s","t","o","r","a","g","e">>
framework == <<"f","r","a","m","e","w","o","r","k">>
core == <<"c","o","r","e">>

foo == <<"f","o","o">>
fooBar == <<"f","o","o","-","b","a","r">>
xfoo == <<"x","f","o","o">>
oo == <<"o","o">>
app == <<"a","p","p">>
srcName == <<"s","r","c">>
indexName == <<"i","n","d","e","x">>

Slash == <<"/">>

\* "storage/framework/core/buddy", the marker joined to a directory
MarkerRel == storage \o Slash \o framework \o Slash \o core \o Slash \o buddy

\* str::contains: t occurs in s as a contiguous run of characters
Contains(s, t) ==
    \E i \in 0..Len(s) : i + Len(t) <= Len(s) /\ SubSeq(s, i + 1, i + Len(t)) = t

EndsWith(s, t) ==
    Len(t) <= Len(s) /\ SubSeq(s, Len(s) - Len(t) + 1, Len(s)) = t

RECURSIVE SplitAcc(_, _, _)
SplitAcc(s, cur, acc) ==
    IF s = <<>>
    THEN IF cur = <<>> THEN acc ELSE Append(acc, cur)
    ELSE IF Head(s) = "/"
         THEN SplitAcc(Tail(s), <<>>, IF cur = <<>> THEN acc ELSE Append(acc, cur))
         ELSE SplitAcc(Tail(s), Append(cur, Head(s)), acc)

\* the components of a relative path text; "." components name the directory itself
Components(s) == SelectSeq(SplitAcc(s, <<>>, <<>>), LAMBDA c : c # <<".">>)

\* Path::join / resolution of a relative path text against directory d
Join(d, s) == d \o Components(s)

RECURSIVE Display(_)
\* path.display() / to_string_lossy() of an absolute path
Display(p) ==
    IF p = <<>> THEN Slash
    ELSE IF Len(p) = 1 THEN Slash \o p[1]
    ELSE Display(SubSeq(p, 1, Len(p) - 1)) \o Slash \o p[Len(p)]

Digit(n) == <<"0","1","2","3","4","5","6","7","8","9">>[n + 1]

RECURSIVE Decimal(_)
Decimal(n) == IF n < 10 THEN <<Digit(n)>> ELSE Decimal(n \div 10) \o <<Digit(n % 10)>>

\* {:?} of an Option<i32>; an Option is a sequence of length 0 or 1
DebugOption(c) ==
    IF c = <<>> THEN <<"N","o","n","e">>
    ELSE <<"S","o","m","e","(">> \o Decimal(c[1]) \o <<")">>

Line(f, a) == [fmt |-> f, arg |-> a]

\* ------------------------------------------------------------ filesystem

Root == <<>>

Prefixes(p) == {SubSeq(p, 1, k) : k \in 0..Len(p)}

\* Path::exists: a directory or a file is there
Exists(f, p) == p \in f.dirs \cup f.files

\* the directories that make <dir>/storage/framework/core/buddy a directory
MarkerDirs(d) == Prefixes(Join(d, MarkerRel)) \ Prefixes(d)

\* what a directory of the working-directory chain may hold
Kinds == {"plain", "marker", "project", "script", "noexec", "buddydir"}

LevelNames == <<foo, app, srcName>>

\* the working directory at depth n: /foo, /foo/app, /foo/app/src, ...
ChainDir(n) == [i \in 1..n |-> LevelNames[((i - 1) % Len(LevelNames)) + 1]]

ChainFs(n, k) ==
    LET at(i) == SubSeq(ChainDir(n), 1, i)
        lv(S) == {i \in 0..n : k[i] \in S}
    IN [dirs  |-> Prefixes(ChainDir(n))
                  \cup UNION {MarkerDirs(at(i)) : i \in lv({"marker", "project"})}
                  \cup {Append(at(i), buddy) : i \in lv({"buddydir"})},
        files |-> {Append(at(i), buddy) : i \in lv({"project", "script", "noexec"})},
        execs |-> {Append(at(i), buddy) : i \in lv({"project", "script"})}]

\* what a project directory under the root may look like to `cd`
Shapes == {"absent", "bare", "marker", "files", "populated"}

ProjNames == <<foo, fooBar, xfoo>>

ShapeDirs(P, s) ==
    CASE s = "absent" -> {}
      [] s = "bare" -> {<<P>>}
      [] s \in {"marker", "files"} -> {<<P>>} \cup MarkerDirs(<<P>>)
      [] OTHER -> {<<P>>} \cup MarkerDirs(<<P>>) \cup {Append(Join(<<P>>, MarkerRel), srcName)}

ShapeFiles(P, s) ==
    IF s \in {"files", "populated"} THEN {Append(Join(<<P>>, MarkerRel), indexName)} ELSE {}

SiblingFs(sh) ==
    [dirs  |-> {Root} \cup UNION {ShapeDirs(ProjNames[i], sh[i]) : i \in 1..Len(ProjNames)},
     files |-> UNION {ShapeFiles(ProjNames[i], sh[i]) : i \in 1..Len(ProjNames)},
     execs |-> {}]

\* ------------------------------------------------------------------ inputs

Environs == {"inherited"}

v010 == <<"0",".","1",".","0">>
v000 == <<"0",".","0",".","0">>
v123 == <<"1",".","2",".","3">>

\* CARGO_PKG_VERSION of the build, and the state of <exe dir>/../package.json
Builds == [cargo : {<<>>, v010}, manifest : {"absent", "valid", "malformed"}]

DefaultBuild == [cargo |-> v010, manifest |-> "absent"]

ProxyArgvs == {<<buddy>>, <<buddy, newWord>>, <<buddy, newWord, foo>>,
               <<buddy, createWord, foo>>}

PlainArgvs == {<<buddy, helpWord>>, <<buddy, versionWord>>, <<buddy, cdWord>>}

Targets == {foo, fooBar, oo}

\* ------------------------------------------------------------- the program

None == <<>>
Some(x) == <<x>>

\* Cli::parse for the sub-commands of `Commands`; flags are not among the inputs
Parse(a) ==
    IF Len(a) = 1 THEN [cmd |-> "none", arg |-> <<>>]
    ELSE IF a[2] \in {newWord, createWord}
         THEN IF Len(a) = 2 THEN [cmd |-> "new", arg |-> <<>>]
              ELSE IF Len(a) = 3 THEN [cmd |-> "new", arg |-> a[3]]
              ELSE [cmd |-> "error", arg |-> <<>>]
    ELSE IF a[2] = cdWord
         THEN IF Len(a) = 3 THEN [cmd |-> "cd", arg |-> a[3]]
              ELSE [cmd |-> "error", arg |-> <<>>]
    ELSE IF a[2] = versionWord /\ Len(a) = 2 THEN [cmd |-> "version", arg |-> <<>>]
    ELSE IF a[2] = helpWord /\ Len(a) = 2 THEN [cmd |-> "help", arg |-> <<>>]
    ELSE [cmd |-> "error", arg |-> <<>>]

\* the arguments with the program name left in
AllArgs(a) == a

\* env::args().skip(1).collect()
ForwardedArgs(a) == Tail(a)

print_help ==
    << Line("Usage: buddy [command] [options]", <<>>),
       Line("", <<>>),
       Line("Commands:", <<>>),
       Line("  new, create       Create a new Stacks project", <<>>),
       Line("  cd <project>      Change the current working directory to a different Stacks project", <<>>),
       Line("  version           Show the version of the Stacks CLI", <<>>),
       Line("  help              Show this help message", <<>>),
       Line("", <<>>) >>

\* get_version: Ok(version) as Some, the parse error of the manifest as None
get_version(b) ==
    IF b.cargo # <<>> THEN Some(b.cargo)
    ELSE IF b.manifest = "valid" THEN Some(v123)
    ELSE IF b.manifest = "malformed" THEN None
    ELSE Some(v000)

\* the exit statuses a child can end with: a code, or none when a signal killed it
Statuses == {[code |-> Some(c)] : c \in 0..MaxCode} \cup {[code |-> None]}

\* success read as "the child left a code"
HasCode(s) == s.code # None

\* ExitStatus::success
Success(s) == s.code = Some(0)

FailureNotice(s) == Line("Command failed with exit code: {:?}", DebugOption(s.code))

\* what the child's end adds to the output
AfterStatus(o, s) == IF Success(s) THEN o ELSE Append(o, FailureNotice(s))

\* the existence test made on the directory instead of the path in it
DirExists(f, d, p) == Exists(f, d)

\* Path::new(p).exists() for a relative path text p
LocalExists(f, d, p) == Exists(f, Join(d, p))

\* Command::new(prog): a name with a slash is the file at that path, relative to
\* the working directory; a bare name is looked up on PATH
CanSpawn(f, d, prog, path) ==
    IF Contains(prog, Slash) THEN Join(d, prog) \in f.execs ELSE path

Exe(d, prog) == IF Contains(prog, Slash) THEN Some(Join(d, prog)) ELSE None

\* Command::new(prog).args(args).status(): the child inherits the working
\* directory and the environment; a spawn error leaves main with Err, exit code 1
Spawn(prog, args, context) ==
    IF CanSpawn(fs, cwd, prog, onPath)
    THEN /\ child' = Some([prog |-> prog, exe |-> Exe(cwd, prog), args |-> args,
                           cwd |-> cwd, env |-> environ, status |-> None])
         /\ spawned' = spawned + 1
         /\ pc' = "wait"
         /\ UNCHANGED <<out, err, exitCode>>
    ELSE /\ err' = Some(context)
         /\ exitCode' = Some(1)
         /\ pc' = "done"
         /\ UNCHANGED <<child, spawned, out>>

\* the loop without its stop at the root
NotAtRootNever(d) == TRUE

\* the loop condition of the ascend search
NotAtRoot(d) == Display(d) # Slash

\* a pop that leaves the path as it is
PopNothing(d) == d

\* PathBuf::pop, its result: false when there is no component to drop
PopOk(d) == d # Root

\* PathBuf::pop, the path it leaves
Pop(d) == IF PopOk(d) THEN SubSeq(d, 1, Len(d) - 1) ELSE d

NoProjectLine ==
    Line("No stacks project found. Do you want to create a new stacks project?", <<>>)

\* the not-found case leaving with exit code 0
AfterAscendExitZero(f) ==
    IF ~f
    THEN /\ out' = Append(out, NoProjectLine)
         /\ exitCode' = Some(0)
         /\ pc' = "done"
         /\ UNCHANGED <<child, spawned, err>>
    ELSE Spawn(dotBuddy, <<newWord>> \o ForwardedArgs(argv), "Failed to execute ./buddy command")

\* create_new_project after the loop
AfterAscend(f) ==
    IF ~f
    THEN /\ out' = Append(out, NoProjectLine)
         /\ exitCode' = Some(1)
         /\ pc' = "done"
         /\ UNCHANGED <<child, spawned, err>>
    ELSE Spawn(dotBuddy, <<newWord>> \o ForwardedArgs(argv), "Failed to execute ./buddy command")

\* the pattern without the project's name
TargetPathNameless(target) == Slash \o MarkerRel \o Slash

\* format!("{}/storage/framework/core/buddy/", target)
TargetPath(target) == target \o Slash \o MarkerRel \o Slash

\* the test of find_project_path on one directory
Matches(p, target) == Contains(Display(p), TargetPath(target))

\* the entries of a directory
Children(f, d) == {p \in f.dirs \cup f.files : Len(p) = Len(d) + 1 /\ SubSeq(p, 1, Len(d)) = d}

RECURSIVE Trim(_)
\* WalkDir drops the directories it has finished reading
Trim(w) == IF w # <<>> /\ w[Len(w)] = {} THEN Trim(SubSeq(w, 1, Len(w) - 1)) ELSE w

\* -------------------------------------------------------------------- Init

Start ==
    /\ environ \in Environs
    /\ pc = "start"
    /\ current_dir = Root
    /\ found = FALSE
    /\ iters = 0
    /\ walk = <<>>
    /\ project_path = None
    /\ child = None
    /\ spawned = 0
    /\ out = <<>>
    /\ err = None
    /\ exitCode = None

\* `new`, `create` and no sub-command, from a working directory at depth 0..MaxDepth
InitProxy ==
    /\ \E n \in 0..MaxDepth : \E k \in [0..n -> Kinds] :
          /\ fs = ChainFs(n, k)
          /\ cwd = ChainDir(n)
    /\ argv \in ProxyArgvs
    /\ onPath \in BOOLEAN
    /\ build = DefaultBuild
    /\ Start

\* `help`, `version` and a `cd` that names no project
InitPlain ==
    /\ \E n \in 0..MaxDepth : \E k \in [0..n -> Kinds] :
          /\ fs = ChainFs(n, k)
          /\ cwd = ChainDir(n)
    /\ argv \in PlainArgvs
    /\ onPath = FALSE
    /\ build \in (IF Parse(argv).cmd = "version" THEN Builds ELSE {DefaultBuild})
    /\ Start

\* `cd <project>` over the project directories under the root
InitCd ==
    /\ \E sh \in [1..Len(ProjNames) -> Shapes] : fs = SiblingFs(sh)
    /\ cwd = Root
    /\ argv \in {<<buddy, cdWord, t>> : t \in Targets}
    /\ onPath = FALSE
    /\ build = DefaultBuild
    /\ Start

Init == InitProxy \/ InitPlain \/ InitCd

\* ----------------------------------------------------------------- actions

\* Cli::parse rejects the command line: usage on stderr, exit code 2
ParseError ==
    /\ pc = "start"
    /\ Parse(argv).cmd = "error"
    /\ err' = Some("usage")
    /\ exitCode' = Some(2)
    /\ pc' = "done"
    /\ UNCHANGED <<inputs, current_dir, found, iters, walk, project_path, child, spawned, out>>

\* main, Some(Commands::Help)
RunHelp ==
    /\ pc = "start"
    /\ Parse(argv).cmd = "help"
    /\ out' = out \o print_help
    /\ exitCode' = Some(0)
    /\ pc' = "done"
    /\ UNCHANGED <<inputs, current_dir, found, iters, walk, project_path, child, spawned, err>>

\* main, Some(Commands::Version): print_version
RunVersion ==
    /\ pc = "start"
    /\ Parse(argv).cmd = "version"
    /\ IF get_version(build) # None
       THEN /\ out' = Append(out, Line("{}", get_version(build)[1]))
            /\ exitCode' = Some(0)
            /\ UNCHANGED err
       ELSE /\ err' = Some("Failed to parse package.json")
            /\ exitCode' = Some(1)
            /\ UNCHANGED out
    /\ pc' = "done"
    /\ UNCHANGED <<inputs, current_dir, found, iters, walk, project_path, child, spawned>>

\* main, None: proxy_command up to the child's start, print_help when it returns false
RunNone ==
    /\ pc = "start"
    /\ Parse(argv).cmd = "none"
    /\ IF LocalExists(fs, cwd, dotBuddy)
       THEN Spawn(dotBuddy, ForwardedArgs(argv), "Failed to execute ./buddy command")
       ELSE /\ out' = out \o print_help
            /\ exitCode' = Some(0)
            /\ pc' = "done"
            /\ UNCHANGED <<child, spawned, err>>
    /\ UNCHANGED <<inputs, current_dir, found, iters, walk, project_path>>

\* main, Some(Commands::New): create_new_project up to the child's start or the loop
RunNew ==
    /\ pc = "start"
    /\ Parse(argv).cmd = "new"
    /\ IF LocalExists(fs, cwd, buddy)
       THEN /\ Spawn(buddy, ForwardedArgs(argv), "Failed to execute buddy command")
            /\ UNCHANGED <<current_dir, found>>
       ELSE /\ current_dir' = cwd
            /\ found' = FALSE
            /\ IF NotAtRoot(cwd)
               THEN /\ pc' = "ascend"
                    /\ UNCHANGED <<child, spawned, out, err, exitCode>>
               ELSE AfterAscend(FALSE)
    /\ UNCHANGED <<inputs, iters, walk, project_path>>

\* one iteration of the ascend loop and, when it ends the loop, the rest of
\* create_new_project up to the child's start
AscendStep ==
    /\ pc = "ascend"
    /\ iters' = iters + 1
    /\ IF Exists(fs, Join(current_dir, MarkerRel))
       THEN /\ found' = TRUE
            /\ UNCHANGED current_dir
            /\ AfterAscend(TRUE)
       ELSE /\ UNCHANGED found
            /\ current_dir' = Pop(current_dir)
            /\ IF PopOk(current_dir) /\ NotAtRoot(Pop(current_dir))
               THEN UNCHANGED <<pc, child, spawned, out, err, exitCode>>
               ELSE AfterAscend(found)
    /\ UNCHANGED <<inputs, walk, project_path>>

\* the local-proxy branch of create_new_project without its `return Ok(())`
ChildExitFallsThrough ==
    /\ pc = "wait"
    /\ \E s \in Statuses :
          /\ child' = Some([child[1] EXCEPT !.status = Some(s)])
          /\ out' = AfterStatus(out, s)
    /\ IF Parse(argv).cmd = "new" /\ spawned = 1 /\ NotAtRoot(cwd)
       THEN /\ pc' = "ascend"
            /\ current_dir' = cwd
            /\ UNCHANGED exitCode
       ELSE /\ pc' = "done"
            /\ exitCode' = Some(0)
            /\ UNCHANGED current_dir
    /\ UNCHANGED <<inputs, found, iters, walk, project_path, spawned, err>>

\* .status() returns: the child has ended; the notice, and Ok(()) out of main
ChildExit ==
    /\ pc = "wait"
    /\ \E s \in Statuses :
          /\ child' = Some([child[1] EXCEPT !.status = Some(s)])
          /\ out' = AfterStatus(out, s)
    /\ exitCode' = Some(0)
    /\ pc' = "done"
    /\ UNCHANGED <<inputs, current_dir, found, iters, walk, project_path, spawned, err>>

\* main, Some(Commands::Cd): change_directory starts the walk at "/"
RunCd ==
    /\ pc = "start"
    /\ Parse(argv).cmd = "cd"
    /\ walk' = <<{Root}>>
    /\ pc' = "walk"
    /\ UNCHANGED <<inputs, current_dir, found, iters, project_path, child, spawned, out, err,
                   exitCode>>

\* one entry of the walk, in any order among siblings; on a match the rest of
\* change_directory
WalkStep ==
    /\ pc = "walk"
    /\ walk # <<>>
    /\ \E e \in walk[Len(walk)] :
          LET rest == [walk EXCEPT ![Len(walk)] = @ \ {e}]
              isDir == e \in fs.dirs
              checking == Append(out, Line("Checking {}...", Display(e)))
          IN IF isDir /\ Matches(e, Parse(argv).arg)
             THEN /\ project_path' = Some(e)
                  /\ out' = checking \o
                        << Line("Project found at {}.", Display(e)),
                           Line("Run 'cd {}' to navigate to the project directory.", Display(e)) >>
                  /\ exitCode' = Some(0)
                  /\ pc' = "done"
                  /\ UNCHANGED walk
             ELSE /\ walk' = Trim(IF isDir THEN Append(rest, Children(fs, e)) ELSE rest)
                  /\ out' = IF isDir THEN checking ELSE out
                  /\ UNCHANGED <<project_path, exitCode, pc>>
    /\ UNCHANGED <<inputs, current_dir, found, iters, child, spawned, err>>

\* the walk is over without a match
WalkEnd ==
    /\ pc = "walk"
    /\ walk = <<>>
    /\ out' = Append(out, Line("Project directory not found.", <<>>))
    /\ exitCode' = Some(0)
    /\ pc' = "done"
    /\ UNCHANGED <<inputs, current_dir, found, iters, walk, project_path, child, spawned, err>>

Next ==
    \/ ParseError
    \/ RunHelp
    \/ RunVersion
    \/ RunNone
    \/ RunNew
    \/ AscendStep
    \/ ChildExit
    \/ RunCd
    \/ WalkStep
    \/ WalkEnd

Spec == Init /\ [][Next]_vars

\* ------------------------------------------------------------------ claims

Cmd == Parse(argv).cmd

HasMarker(d) == Exists(fs, Join(d, MarkerRel))

\* `new` with no local proxy: the branch that searches upwards
Ascending == Cmd = "new" /\ ~Exists(fs, Append(cwd, buddy))

SearchOver == Ascending /\ pc \notin {"start", "ascend"}

\* the local proxy is there, for no sub-command or for `new`
InLocalProxy == Cmd \in {"none", "new"} /\ Exists(fs, Append(cwd, buddy))

\* C1, as claimed: when exactly one directory among the start and its ancestors, the
\* root included, holds the marker, the ascend search ends found at that directory;
\* when none does, it ends not-found.
C1_AscendRootIncluded ==
    SearchOver =>
        LET M == {d \in Prefixes(cwd) : HasMarker(d)}
        IN /\ Cardinality(M) = 1 => found /\ current_dir \in M
           /\ M = {} => ~found

\* C1, amended: the same with the root left out of the directories examined: when
\* exactly one directory among the start and its ancestors below the root holds the
\* marker, the search ends found at that directory; when none of those does, it
\* ends not-found, whatever the root holds.
C1_AscendBelowRoot ==
    SearchOver =>
        LET M == {d \in Prefixes(cwd) \ {Root} : HasMarker(d)}
        IN /\ Cardinality(M) = 1 => found /\ current_dir \in M
           /\ M = {} => ~found

C1_Witness ==
    /\ SearchOver /\ found /\ current_dir # cwd
    /\ {d \in Prefixes(cwd) \ {Root} : HasMarker(d)} = {current_dir}

\* C2, as claimed: when the local proxy is absent and the ascend search finds a
\* project at D, the run ends with a child that was D's buddy script, started with
\* "new" followed by the forwarded arguments and waited for, and with exit code 0.
C2_AscendScriptInvoked ==
    (Ascending /\ found /\ pc = "done") =>
        /\ child # None
        /\ child[1].exe = Some(Append(current_dir, buddy))
        /\ child[1].args = <<newWord>> \o Tail(argv)
        /\ child[1].status # None
        /\ exitCode = Some(0)

\* C3: with the local proxy absent and no marker found by the ascend search, no
\* child is ever started, and the run ends having printed the no-project line,
\* with exit code 1.
C3_FatalFallback ==
    (Ascending /\ ~found) =>
        /\ spawned = 0 /\ child = None
        /\ pc \notin {"start", "ascend"} =>
              /\ pc = "done"
              /\ exitCode = Some(1)
              /\ out = <<NoProjectLine>>

C3_Witness ==
    /\ Ascending /\ ~found /\ pc = "done" /\ iters = MaxDepth
    /\ exitCode = Some(1) /\ HasMarker(Root)

\* C4: in the local-proxy branches, whatever way the child ended, the run ends with
\* exit code 0, and the output is the failure notice with the child's code (or
\* None) exactly when the child did not end with code 0, and nothing otherwise.
C4_ChildExitDecoupled ==
    (InLocalProxy /\ child # None /\ pc = "done") =>
        LET code == child[1].status[1].code
        IN /\ exitCode = Some(0)
           /\ out = IF code = Some(0) THEN <<>>
                    ELSE <<Line("Command failed with exit code: {:?}", DebugOption(code))>>

C4_Witness ==
    /\ InLocalProxy /\ child # None /\ pc = "done"
    /\ child[1].status = Some([code |-> None])
    /\ out = <<Line("Command failed with exit code: {:?}", <<"N","o","n","e">>)>>

C5_ChildFrame ==
    (InLocalProxy /\ child # None) =>
        /\ child[1].args = Tail(argv)
        /\ child[1].cwd = cwd
        /\ child[1].env = environ

\* C5: the child of a local-proxy branch gets the process's arguments without the
\* program name, in order, and no step of the run changes the working directory
\* or the environment.
C5_Delegation == []C5_ChildFrame /\ [][cwd' = cwd /\ environ' = environ]_vars

C5_Witness ==
    /\ InLocalProxy /\ child # None /\ pc = "done"
    /\ child[1].args = <<newWord, foo>>

\* C6: with no sub-command and no ./buddy, no child is started and the run ends
\* with exit code 0 and the usage text as its whole output; `help` ends with the
\* same output.
C6_ProxyAbsence ==
    /\ (Cmd = "none" /\ ~Exists(fs, Append(cwd, buddy))) =>
          /\ spawned = 0 /\ child = None /\ pc \in {"start", "done"}
          /\ pc = "done" => out = print_help /\ exitCode = Some(0)
    /\ (Cmd = "help" /\ pc = "done") => out = print_help /\ exitCode = Some(0)

C6_Witness ==
    /\ Cmd = "none" /\ ~Exists(fs, Append(cwd, buddy)) /\ pc = "done"
    /\ out = print_help /\ cwd # Root

\* C7: a run starts at most one child, and `cd`, `version` and `help` start none.
C7_AtMostOneChild ==
    /\ spawned <= 1
    /\ (child = None) <=> (spawned = 0)
    /\ Cmd \in {"cd", "version", "help"} => spawned = 0

C7_Witness == spawned = 1 /\ pc = "done" /\ Cmd = "new" /\ HasMarker(cwd)

\* C8, as claimed: when the project directory named P holds the marker directory,
\* the descend search for P ends found, at a directory whose path contains
\* "P/storage/framework/core/buddy/"; it ends not-found only when no directory
\* does.
C8_DescendFindsProject ==
    (Cmd = "cd" /\ pc = "done") =>
        LET P == Parse(argv).arg
        IN /\ Join(<<P>>, MarkerRel) \in fs.dirs => project_path # None
           /\ project_path # None => Contains(Display(project_path[1]), TargetPath(P))
           /\ project_path = None =>
                 \A d \in fs.dirs : ~Contains(Display(d), TargetPath(P))

\* the directory that holds the marker a returned path lies under
Holders(r) ==
    {SubSeq(r, 1, k) : k \in {j \in 0..Len(r) :
        j + 5 <= Len(r) /\ SubSeq(r, j + 1, j + 4) = Components(MarkerRel)}}

\* C9, as claimed: a path the descend search returns lies in a project whose
\* directory name is P itself.
C9_ExactName ==
    (Cmd = "cd" /\ project_path # None) =>
        \E h \in Holders(project_path[1]) : h # Root /\ h[Len(h)] = Parse(argv).arg

\* C9, amended: a path the descend search returns lies below the marker directory
\* of a directory whose path ends with the text P: a project named P, or one whose
\* name ends with P; a name that only starts with P (P-bar) is never matched.
C9_NameEndsWithTarget ==
    (Cmd = "cd" /\ project_path # None) =>
        /\ \E h \in Holders(project_path[1]) : EndsWith(Display(h), Parse(argv).arg)
        /\ Parse(argv).arg = foo => project_path[1][1] # fooBar

C9_Witness ==
    /\ Cmd = "cd" /\ pc = "done" /\ Parse(argv).arg = foo
    /\ project_path # None /\ project_path[1][1] = xfoo
    /\ <<fooBar>> \in fs.dirs

\* C10: the ascend loop runs at most as many iterations as the starting directory
\* is deep: while it runs, every iteration so far has shortened the path by one
\* component, and a further iteration is always possible.
C10_AscendTerminates ==
    /\ iters <= Len(cwd)
    /\ pc = "ascend" =>
          /\ Len(current_dir) + iters = Len(cwd)
          /\ current_dir # Root
          /\ ENABLED AscendStep

C10_Witness == SearchOver /\ ~found /\ iters = Len(cwd) /\ iters = MaxDepth

====
